---- MODULE Spec2Model ----
(***************************************************************************)
(* Staged multi-role generation pipeline of vivkarthy/e2eDevelopment.      *)
(*                                                                         *)
(* Two programs are modelled:                                              *)
(*   - src/e2e_development_agent.py: a LangGraph state graph whose nodes   *)
(*     are the five role agents, driven from a Streamlit page;             *)
(*   - src/e2e_development_agent_Hackathon.py: Agent.process, the         *)
(*     completion call with its retry loop; process_requirements, the      *)
(*     batch pipeline; and the page with its feedback handler.             *)
(*                                                                         *)
(* Texts are sequences of one-character strings.                           *)
(***************************************************************************)
EXTENDS Integers, Sequences, FiniteSets, TLC

VARIABLES
    requirements,     \* st.session_state.requirements
    state,            \* st.session_state.state: <<>> (None) or <<AppState>>
    graph,            \* st.session_state.graph: FALSE (None) or TRUE (compiled)
    process_started,  \* st.session_state.process_started
    run,              \* the graph.invoke in flight: <<>> or <<run record>>
    invocations,      \* history: role-agent invocations made in the session
    failures,         \* history: completion calls that raised
    proc,             \* one Agent.process call (Hackathon variant)
    api_key,          \* openai.api_key is set
    pdf_text,         \* st.session_state.pdf_text: <<>> (None) or <<text>>
    processing,       \* st.session_state.processing
    results,          \* st.session_state.results
    chat_history,     \* st.session_state.chat_history
    feedback_history, \* st.session_state.feedback_history
    status,           \* st.session_state.status
    progress_percentage, \* st.session_state.progress_percentage
    task,             \* where the script run of the Hackathon page stands
    event,            \* history: the last click the page handled
    abnormal,         \* history: process calls that met a failing service
    accepted,         \* history: feedback submissions that were processed
    call              \* one call of an agent node (agent_fn), step by step

sessionVars == <<api_key, pdf_text, processing, results, chat_history,
                 feedback_history, status, progress_percentage, task, event,
                 abnormal, accepted>>

vars == <<requirements, state, graph, process_started, run, invocations,
          failures, proc, sessionVars, call>>

pipelineVars == <<requirements, state, graph, process_started, run,
                  invocations, failures, call>>

(***************************************************************************)
(* Bounds                                                                  *)
(***************************************************************************)
MaxFailures == 1

(***************************************************************************)
(* Roles and stages                                                        *)
(***************************************************************************)
ROLES == {"project_manager", "designer", "developer", "tester", "presenter"}

END == "__end__"

StageOrder == <<"requirements", "design", "development", "testing",
                "presentation", "complete">>

Stages == {StageOrder[i] : i \in 1..Len(StageOrder)}

StageRank(s) == CHOOSE i \in 1..Len(StageOrder) : StageOrder[i] = s

\* the role whose branch of agent_fn is taken at a non-terminal stage
StageOwner(s) ==
    CASE s = "requirements" -> "project_manager"
      [] s = "design"       -> "designer"
      [] s = "development"  -> "developer"
      [] s = "testing"      -> "tester"
      [] s = "presentation" -> "presenter"
      [] OTHER              -> "none"

(***************************************************************************)
(* Dictionaries                                                            *)
(***************************************************************************)
EmptyDict == [k \in {} |-> k]

DictSet(d, key, value) ==
    [k \in DOMAIN d \cup {key} |-> IF k = key THEN value ELSE d[k]]

(***************************************************************************)
(* Texts                                                                   *)
(***************************************************************************)
WordChars == {"a", "b"}
Whitespace == {" ", "\n"}

\* str.strip()
RECURSIVE lstrip(_)
lstrip(s) ==
    IF s # <<>> /\ Head(s) \in Whitespace THEN lstrip(Tail(s)) ELSE s

RECURSIVE rstrip(_)
rstrip(s) ==
    IF s # <<>> /\ s[Len(s)] \in Whitespace
    THEN rstrip(SubSeq(s, 1, Len(s) - 1))
    ELSE s

strip(s) == rstrip(lstrip(s))

\* the backtick character (written bt: the lexer rejects it in a string)
Backtick == "bt"

\* three backticks starting at position i
FenceAt(t, i) ==
    /\ i >= 1
    /\ i + 2 <= Len(t)
    /\ t[i] = Backtick /\ t[i + 1] = Backtick /\ t[i + 2] = Backtick

\* first position >= i that does not hold a word character (Len(t)+1 if none)
RECURSIVE WordEnd(_, _)
WordEnd(t, i) ==
    IF i <= Len(t) /\ t[i] \in WordChars THEN WordEnd(t, i + 1) ELSE i

\* first position >= i where a fence starts (0 if none)
RECURSIVE NextFence(_, _)
NextFence(t, i) ==
    IF i + 2 > Len(t) THEN 0
    ELSE IF FenceAt(t, i) THEN i
    ELSE NextFence(t, i + 1)

\* one attempt at position i of the pattern: three backticks, an optional
\* greedy run of word characters, a newline, a lazy run of any characters
\* (re.DOTALL), three backticks
MatchAt(t, i) ==
    LET e == WordEnd(t, i + 3)
        c == NextFence(t, e + 1)
    IN  IF FenceAt(t, i) /\ e <= Len(t) /\ t[e] = "\n" /\ c # 0
        THEN [ok |-> TRUE, lang |-> SubSeq(t, i + 3, e - 1),
              code |-> SubSeq(t, e + 1, c - 1), next |-> c + 3]
        ELSE [ok |-> FALSE, lang |-> <<>>, code |-> <<>>, next |-> i + 1]

\* re.findall: non-overlapping matches, leftmost first, scanning from i
RECURSIVE findall(_, _)
findall(t, i) ==
    IF i > Len(t) THEN <<>>
    ELSE LET m == MatchAt(t, i)
         IN  IF m.ok
             THEN <<[lang |-> m.lang, code |-> m.code]>> \o findall(t, m.next)
             ELSE findall(t, i + 1)

TextLang == <<"t", "e", "x", "t">>

\* f"module_{i+1}" for the 0-based enumerate index i
ModuleName(i) == <<"module_", i + 1>>

\* the developer branch: the code_modules mapping after the loop over blocks
RECURSIVE StoreBlocks(_, _, _)
StoreBlocks(modules, blocks, i) ==
    IF i >= Len(blocks) THEN modules
    ELSE LET b == blocks[i + 1]
             entry == [language |-> IF b.lang # <<>> THEN strip(b.lang)
                                    ELSE TextLang,
                       code |-> strip(b.code)]
         IN  StoreBlocks(DictSet(modules, ModuleName(i), entry), blocks, i + 1)

(***************************************************************************)
(* The inputs: extracted requirement texts and completion results          *)
(***************************************************************************)
NoFenceText == <<"a", " ", "b">>

OneFenceText ==
    <<Backtick, Backtick, Backtick, "a", "\n",
      " ", "b", "\n", Backtick, Backtick, Backtick>>

\* what llm.invoke(prompt).content can be: empty, narrative only, one block
Responses == {<<>>, NoFenceText, OneFenceText}

\* what extract_text_from_pdf can return
RequirementTexts == {<<>>, <<"a">>}

(***************************************************************************)
(* AppState and the agent nodes                                            *)
(***************************************************************************)
AIMessage(content, name) == [content |-> content, name |-> name]

initial_state(requirements_text) ==
    [requirements  |-> requirements_text,
     messages      |-> <<>>,
     current_stage |-> "requirements",
     design_docs   |-> EmptyDict,
     code_modules  |-> EmptyDict,
     test_results  |-> EmptyDict,
     presentation  |-> EmptyDict,
     current_agent |-> "project_manager"]

\* a chain that tests the stage only, not the role
Branch_by_stage(role, s) ==
    IF s.current_stage = "complete" THEN "none" ELSE s.current_stage

\* which branch of agent_fn's if/elif chain is taken
Branch(role, s) ==
    IF role = "project_manager" /\ s.current_stage = "requirements"
        THEN "requirements"
    ELSE IF role = "designer" /\ s.current_stage = "design"
        THEN "design"
    ELSE IF role = "developer" /\ s.current_stage = "development"
        THEN "development"
    ELSE IF role = "tester" /\ s.current_stage = "testing"
        THEN "testing"
    ELSE IF role = "presenter" /\ s.current_stage = "presentation"
        THEN "presentation"
    ELSE "none"

\* new_messages: the conversation with the agent's response appended
new_messages_unnamed(role, s, content) ==
    Append(s.messages, AIMessage(content, "Assistant"))

new_messages_replaced(role, s, content) ==
    <<AIMessage(content, role)>>

new_messages(role, s, content) ==
    Append(s.messages, AIMessage(content, role))

\* new_current_stage after the if/elif chain, b the branch taken
new_current_stage_wraps(b, s) ==
    CASE b = "requirements" -> "design"
      [] b = "design"       -> "development"
      [] b = "development"  -> "testing"
      [] b = "testing"      -> "presentation"
      [] b = "presentation" -> "requirements"
      [] OTHER              -> s.current_stage

new_current_stage(b, s) ==
    CASE b = "requirements" -> "design"
      [] b = "design"       -> "development"
      [] b = "development"  -> "testing"
      [] b = "testing"      -> "presentation"
      [] b = "presentation" -> "complete"
      [] OTHER              -> s.current_stage

\* new_current_agent after the if/elif chain
new_current_agent_slip(b, s) ==
    CASE b = "requirements" -> "designer"
      [] b = "design"       -> "developer"
      [] b = "development"  -> "presenter"
      [] b = "testing"      -> "presenter"
      [] OTHER              -> s.current_agent

new_current_agent(b, s) ==
    CASE b = "requirements" -> "designer"
      [] b = "design"       -> "developer"
      [] b = "development"  -> "tester"
      [] b = "testing"      -> "presenter"
      [] OTHER              -> s.current_agent

\* new_design_docs after the if/elif chain
new_design_docs_early(b, s, content) ==
    IF b \in {"requirements", "design"}
    THEN DictSet(s.design_docs, "specifications", content)
    ELSE s.design_docs

new_design_docs_rewritten(b, s, content) ==
    IF b \in {"design", "presentation"}
    THEN DictSet(s.design_docs, "specifications", content)
    ELSE s.design_docs

new_design_docs(b, s, content) ==
    IF b = "design"
    THEN DictSet(s.design_docs, "specifications", content)
    ELSE s.design_docs

\* new_code_modules after the if/elif chain
new_code_modules(b, s, content) ==
    IF b = "development"
    THEN StoreBlocks(s.code_modules, findall(content, 1), 0)
    ELSE s.code_modules

\* new_test_results after the if/elif chain
new_test_results(b, s, content) ==
    IF b = "testing"
    THEN DictSet(s.test_results, "test_plan", content)
    ELSE s.test_results

\* new_presentation after the if/elif chain
new_presentation(b, s, content) ==
    IF b = "presentation"
    THEN DictSet(s.presentation, "content", content)
    ELSE s.presentation

\* agent_fn of create_agent_node(role, llm), given the content of the
\* completion: the update it returns
agent_fn(role, s, content) ==
    LET b == Branch(role, s)
    IN  [messages      |-> new_messages(role, s, content),
         current_stage |-> new_current_stage(b, s),
         current_agent |-> new_current_agent(b, s),
         design_docs   |-> new_design_docs(b, s, content),
         code_modules  |-> new_code_modules(b, s, content),
         test_results  |-> new_test_results(b, s, content),
         presentation  |-> new_presentation(b, s, content)]

\* StateGraph(AppState) has no reducers: a node's update overwrites the keys
\* it returns and keeps the others
ApplyUpdate_drops_requirements(s, u) ==
    [requirements  |-> <<>>,
     messages      |-> u.messages,
     current_stage |-> u.current_stage,
     design_docs   |-> u.design_docs,
     code_modules  |-> u.code_modules,
     test_results  |-> u.test_results,
     presentation  |-> u.presentation,
     current_agent |-> u.current_agent]

ApplyUpdate(s, u) ==
    [requirements  |-> s.requirements,
     messages      |-> u.messages,
     current_stage |-> u.current_stage,
     design_docs   |-> u.design_docs,
     code_modules  |-> u.code_modules,
     test_results  |-> u.test_results,
     presentation  |-> u.presentation,
     current_agent |-> u.current_agent]

\* a router without the test for the terminal stage
router_never_ends(s) == s.current_agent

router_ends_early(s) ==
    IF s.current_stage \in {"presentation", "complete"} THEN END
    ELSE s.current_agent

router(s) ==
    IF s.current_stage = "complete" THEN END ELSE s.current_agent

\* workflow.add_edge(START, "project_manager")
EntryNode == "project_manager"

(***************************************************************************)
(* The Hackathon page: session state as the script initialises it          *)
(***************************************************************************)
\* the sections in the order process_requirements produces them
SectionOrder ==
    <<"User Stories", "Project Management Plan",
      "UI/UX Design Specifications", "Development Plan",
      "Technology Design", "Test Scenarios", "Test Cases">>

Sections == {SectionOrder[i] : i \in 1..Len(SectionOrder)}

\* the keys of tab_mapping
tab_mapping == Sections

Status(text, section) == <<text, section>>

TaskPage ==
    [pc |-> "page", stage |-> 0, local |-> EmptyDict, section |-> "",
     feedback |-> <<>>, improved |-> "",
     input |-> [original |-> "", updated |-> ""]]

NoEvent == [button |-> "", section |-> "", feedback |-> <<>>, error |-> ""]

\* the values the script gives the session fields on its first run
SessionIdle ==
    /\ api_key = TRUE
    /\ pdf_text = <<>>
    /\ processing = FALSE
    /\ results = EmptyDict
    /\ chat_history = <<>>
    /\ feedback_history = EmptyDict
    /\ status = Status("Ready", "")
    /\ progress_percentage = 0
    /\ task = TaskPage
    /\ event = NoEvent
    /\ abnormal = 0
    /\ accepted = 0

(***************************************************************************)
(* The graph run: one graph.invoke, one node per step                      *)
(***************************************************************************)
None == <<>>

MaxMessages == 6

\* graph.invoke(s) starts at the entry node with s as channel values
StartRun(s, caller) ==
    [st |-> s, next |-> EntryNode, log |-> <<>>, caller |-> caller]

Running == run # None

\* One node runs with the completion `content`; the update is applied and
\* the conditional edge (router) picks the next node.
Tick(content) ==
    /\ Running
    /\ run[1].next # END
    /\ LET r    == run[1]
           role == r.next
           st2  == ApplyUpdate(r.st, agent_fn(role, r.st, content))
       IN  run' = <<[st     |-> st2,
                     next   |-> router(st2),
                     log    |-> Append(r.log,
                                  [role    |-> role,
                                   stage   |-> r.st.current_stage,
                                   branch  |-> Branch(role, r.st),
                                   content |-> content]),
                     caller |-> r.caller]>>
    /\ invocations' = invocations + 1
    /\ UNCHANGED <<requirements, state, graph, process_started, failures, proc>>
    /\ UNCHANGED <<sessionVars, call>>

\* llm.invoke raises: the exception leaves agent_fn, graph.invoke and the
\* button handler; the values of the run are lost
LLMError ==
    /\ Running
    /\ run[1].next # END
    /\ failures < MaxFailures
    /\ run' = None
    /\ invocations' = invocations + 1
    /\ failures' = failures + 1
    /\ UNCHANGED <<requirements, state, graph, process_started, proc>>
    /\ UNCHANGED <<sessionVars, call>>

\* graph.invoke returns the final channel values to the handler that called
InvokeReturn ==
    /\ Running
    /\ run[1].next = END
    /\ state' = <<run[1].st>>
    /\ process_started' = (IF run[1].caller = "process_requirements"
                           THEN TRUE ELSE process_started)
    /\ run' = None
    /\ UNCHANGED <<requirements, graph, invocations, failures, proc>>
    /\ UNCHANGED <<sessionVars, call>>

(***************************************************************************)
(* The page (main)                                                         *)
(***************************************************************************)
\* the "Process Requirements" button, up to the call of graph.invoke
ProcessRequirements(requirements_text) ==
    /\ ~Running
    /\ ~process_started
    /\ requirements' = requirements_text
    /\ state' = <<initial_state(requirements_text)>>
    /\ graph' = TRUE
    /\ run' = <<StartRun(initial_state(requirements_text),
                         "process_requirements")>>
    /\ UNCHANGED <<process_started, invocations, failures, proc>>
    /\ UNCHANGED <<sessionVars, call>>

\* the "Let <current agent> work" button, up to the call of graph.invoke
LetWork ==
    /\ ~Running
    /\ process_started
    /\ state # None
    /\ state[1].current_stage # "complete"
    /\ Len(state[1].messages) < MaxMessages
    /\ run' = <<StartRun(state[1], "let_work")>>
    /\ UNCHANGED <<requirements, state, graph, process_started, invocations,
                   failures, proc>>
    /\ UNCHANGED <<sessionVars, call>>

\* graph.invoke applied to a state whose stage is complete (the page never
\* does it: it shows no button then)
InvokeOnComplete ==
    /\ ~Running
    /\ state # None
    /\ graph
    /\ state[1].current_stage = "complete"
    /\ Len(state[1].messages) < MaxMessages
    /\ run' = <<StartRun(state[1], "direct")>>
    /\ UNCHANGED <<requirements, state, graph, process_started, invocations,
                   failures, proc>>
    /\ UNCHANGED <<sessionVars, call>>

\* no agent node is being called directly
NoCall ==
    [pc |-> "idle", role |-> "", given |-> <<>>, heap |-> EmptyDict,
     kwargs |-> <<>>, prompt |-> <<>>, response |-> <<>>,
     locals |-> <<>>, update |-> <<>>, service_calls |-> 0, error |-> ""]

(***************************************************************************)
(* Agent.process (Hackathon variant), idle in the pipeline specifications  *)
(***************************************************************************)
ProcIdle ==
    [pc |-> "idle", api_key |-> TRUE, max_retries |-> 0, fail_first |-> 0,
     attempt |-> 0, service_calls |-> 0, sleeps |-> 0, history |-> 0,
     result |-> "unset"]

(***************************************************************************)
(* Spec: the interactive page of e2e_development_agent.py                  *)
(***************************************************************************)
Init ==
    /\ requirements = <<>>
    /\ state = None
    /\ graph = FALSE
    /\ process_started = FALSE
    /\ run = None
    /\ invocations = 0
    /\ failures = 0
    /\ proc = ProcIdle
    /\ SessionIdle
    /\ call = NoCall

Next ==
    \/ \E t \in RequirementTexts : ProcessRequirements(t)
    \/ \E c \in Responses : Tick(c)
    \/ LLMError
    \/ InvokeReturn

Spec == Init /\ [][Next]_vars

(***************************************************************************)
(* InvokeSpec: graph.invoke on every state value the pipeline produces     *)
(***************************************************************************)
\* the states after k agent runs of the routed role, k = 0..5
RECURSIVE PipelineStatesFrom(_, _)
PipelineStatesFrom(S, k) ==
    IF k = 0 THEN S
    ELSE S \cup PipelineStatesFrom(
             {ApplyUpdate(s, agent_fn(s.current_agent, s, c)) :
                 s \in {x \in S : x.current_stage # "complete"},
                 c \in Responses}, k - 1)

PipelineStates ==
    PipelineStatesFrom({initial_state(t) : t \in RequirementTexts}, 5)

InitInvoke ==
    /\ \E s \in PipelineStates :
         /\ state = <<s>>
         /\ requirements = s.requirements
         /\ invocations = Len(s.messages)
    /\ graph = TRUE
    /\ process_started = TRUE
    /\ run = None
    /\ failures = 0
    /\ proc = ProcIdle
    /\ SessionIdle
    /\ call = NoCall

NextInvoke ==
    \/ LetWork
    \/ InvokeOnComplete
    \/ \E c \in Responses : Tick(c)
    \/ LLMError
    \/ InvokeReturn

InvokeSpec == InitInvoke /\ [][NextInvoke]_vars

(***************************************************************************)
(* Properties of the stage controller                                      *)
(***************************************************************************)
\* the AppState values held at the moment: the session's and the run's
StateValues ==
    (IF state # None THEN {state[1]} ELSE {}) \cup
    (IF Running THEN {run[1].st} ELSE {})

FromIngest == Running /\ run[1].caller = "process_requirements"

\* C1: from the ingested state, the k-th agent run happens at the k-th stage
\* and takes that stage's transition, the stage after k runs is the (k+1)-th
\* of the order, and the run ends after exactly five runs, at complete.
C1_FiveTicksInOrder ==
    FromIngest =>
        LET r == run[1]
            n == Len(r.log)
        IN  /\ n <= 5
            /\ r.st.current_stage = StageOrder[n + 1]
            /\ \A i \in 1..n : /\ r.log[i].stage = StageOrder[i]
                               /\ r.log[i].branch = StageOrder[i]
            /\ (r.next = END) <=> (n = 5)
            /\ (n < 5) => r.next \in ROLES

C1_Witness ==
    /\ FromIngest
    /\ Len(run[1].log) = 5
    /\ run[1].st.current_stage = "complete"
    /\ run[1].next = END

\* C2: every agent run made by the controller is of the role that owns the
\* stage the state is in when the agent runs.
C2_AgentOwnsStage ==
    Running =>
        \A i \in 1..Len(run[1].log) :
            run[1].log[i].role = StageOwner(run[1].log[i].stage)

\* C3: one graph invoke runs exactly one role agent and advances the stage
\* by exactly one step.
C3_OneStagePerInvoke ==
    Running =>
        /\ Len(run[1].log) <= 1
        /\ (run[1].next = END) =>
              /\ Len(run[1].log) = 1
              /\ StageRank(run[1].st.current_stage) =
                     StageRank(state[1].current_stage) + 1

\* C4: no step moves the stage of the session state, or of the state a run
\* works on, to an earlier position of the stage order.
C4_StepKeepsOrder ==
    /\ (state # None /\ state' # None) =>
           StageRank(state'[1].current_stage) >=
               StageRank(state[1].current_stage)
    /\ (Running /\ run' # None) =>
           StageRank(run'[1].st.current_stage) >=
               StageRank(run[1].st.current_stage)
    /\ (~Running /\ run' # None) =>
           StageRank(run'[1].st.current_stage) >=
               StageRank(state'[1].current_stage)

C4_StageNeverRegresses == [][C4_StepKeepsOrder]_vars

C4_Witness ==
    /\ state # None
    /\ state[1].current_stage = "complete"
    /\ process_started

\* C5: once the stage of the session state is complete, no step changes the
\* session state, and a graph run on a complete state changes nothing of it.
C5_StepKeepsComplete ==
    /\ (state # None /\ state[1].current_stage = "complete") =>
           state' = state
    /\ (Running /\ run' # None /\ run[1].st.current_stage = "complete") =>
           run'[1].st = run[1].st

C5_CompleteIsFinal == [][C5_StepKeepsComplete]_vars

\* C6: in every state value whose stage is not complete, current_agent is
\* the role that owns the stage.
C6_ActiveRoleOwnsStage ==
    \A s \in StateValues :
        s.current_stage # "complete" =>
            s.current_agent = StageOwner(s.current_stage)

C6_Witness ==
    /\ Running
    /\ run[1].st.current_stage = "testing"
    /\ run[1].st.current_agent = "tester"

\* the artifact mappings and the stage that owns each
ArtifactKinds == {"design_docs", "code_modules", "test_results", "presentation"}

ArtifactStage(k) ==
    CASE k = "design_docs"  -> "design"
      [] k = "code_modules" -> "development"
      [] k = "test_results" -> "testing"
      [] k = "presentation" -> "presentation"

Artifact(s, k) ==
    CASE k = "design_docs"  -> s.design_docs
      [] k = "code_modules" -> s.code_modules
      [] k = "test_results" -> s.test_results
      [] k = "presentation" -> s.presentation

\* a mapping is populated when it has an entry (the page's own test)
Populated(d) == DOMAIN d # {}

Past(s, stage) == StageRank(s.current_stage) > StageRank(stage)

\* C7 as stated: each artifact is populated exactly when the stage is
\* strictly past the stage that owns it, whatever the agents returned.
C7_ArtifactIffPassed ==
    \A s \in StateValues : \A k \in ArtifactKinds :
        Populated(Artifact(s, k)) <=> Past(s, ArtifactStage(k))

\* C7 amended: the design spec, the test results and the presentation are
\* populated exactly when the stage is strictly past their stage; the code
\* modules are populated exactly when the stage is strictly past development
\* and the developer's output (the third conversation entry) holds at least
\* one region that the extraction pattern matches.
C7_ArtifactIffPassedOrNoBlock ==
    \A s \in StateValues :
        /\ \A k \in ArtifactKinds \ {"code_modules"} :
               Populated(Artifact(s, k)) <=> Past(s, ArtifactStage(k))
        /\ Populated(s.code_modules) <=>
               /\ Past(s, "development")
               /\ findall(s.messages[3].content, 1) # <<>>

C7_Witness ==
    /\ state # None
    /\ state[1].current_stage = "complete"
    /\ ~Populated(state[1].code_modules)
    /\ Populated(state[1].design_docs)
    /\ Populated(state[1].test_results)
    /\ Populated(state[1].presentation)

\* what the owning branch stores in mapping k for a completion content
Written(k, content) ==
    CASE k = "design_docs"  -> DictSet(EmptyDict, "specifications", content)
      [] k = "code_modules" -> StoreBlocks(EmptyDict, findall(content, 1), 0)
      [] k = "test_results" -> DictSet(EmptyDict, "test_plan", content)
      [] k = "presentation" -> DictSet(EmptyDict, "content", content)

\* C8: in a pipeline run each artifact mapping is written by at most one
\* agent run, that run is of the owning role at the owning stage, the
\* mapping is empty before it and holds what that run stored ever after, and
\* when the run ends every mapping has been written exactly once.
C8_WrittenOnceByOwner ==
    FromIngest =>
        \A k \in ArtifactKinds :
            LET r == run[1]
                W == {i \in 1..Len(r.log) : r.log[i].branch = ArtifactStage(k)}
            IN  /\ Cardinality(W) <= 1
                /\ \A i \in W : /\ r.log[i].role = StageOwner(ArtifactStage(k))
                                /\ r.log[i].stage = ArtifactStage(k)
                                /\ Artifact(r.st, k) =
                                       Written(k, r.log[i].content)
                /\ (W = {}) => Artifact(r.st, k) = EmptyDict
                /\ (r.next = END) => Cardinality(W) = 1

C8_Witness ==
    /\ FromIngest
    /\ run[1].next = END
    /\ Populated(run[1].st.design_docs)
    /\ Populated(run[1].st.code_modules)
    /\ run[1].log[2].content # run[1].log[5].content

\* the conversation log at the moment: the one of the run in flight, else
\* the one of the session state
Conversation ==
    IF Running THEN run[1].st.messages
    ELSE IF state # None THEN state[1].messages
    ELSE <<>>

\* C9: the conversation log has as many entries as role agents have been
\* invoked so far in the session.
C9_ConversationCountsInvocations == Len(Conversation) = invocations

(***************************************************************************)
(* Agent.process: the completion call with retries (Hackathon variant)     *)
(***************************************************************************)
MaxRetriesBound == 4

DefaultMaxRetries == 3

\* the completion service fails on its first fail_first calls of a process
\* call and succeeds afterwards; AlwaysFails stands for a service that fails
\* on every call
AlwaysFails == MaxRetriesBound + 1

\* how far below zero max_retries is drawn
NegativeRetries == 1

\* a loop whose body runs once before the range is tested
loop_head_runs_once(p, attempt) ==
    IF attempt < p.max_retries \/ attempt = 0
    THEN [p EXCEPT !.pc = "attempt", !.attempt = attempt]
    ELSE [p EXCEPT !.pc = "returned", !.result = "None"]

\* for attempt in range(max_retries): the loop head reached with the next
\* value of attempt; an exhausted range falls out of the function (None)
loop_head(p, attempt) ==
    IF attempt < p.max_retries
    THEN [p EXCEPT !.pc = "attempt", !.attempt = attempt]
    ELSE [p EXCEPT !.pc = "returned", !.result = "None"]

\* an entry without the api-key check
process_entry_unchecked(p) == loop_head(p, 0)

\* process up to the loop: the api-key check, then the first loop head
process_entry(p) ==
    IF ~p.api_key
    THEN [p EXCEPT !.pc = "returned", !.result = "no_api_key"]
    ELSE loop_head(p, 0)

\* the try block when the service call succeeds
try_success(p) ==
    [p EXCEPT !.pc = "returned", !.result = "result",
              !.service_calls = @ + 1, !.history = @ + 1]

\* an except block that sleeps after every failed attempt
except_block_always_sleeps(p) ==
    [p EXCEPT !.pc = "sleep", !.service_calls = @ + 1]

\* the except block when the service call raises, up to time.sleep
except_block_off_by_one(p) ==
    IF p.attempt = p.max_retries
    THEN [p EXCEPT !.pc = "returned", !.result = "sentinel",
                   !.service_calls = @ + 1]
    ELSE [p EXCEPT !.pc = "sleep", !.service_calls = @ + 1]

except_block(p) ==
    IF p.attempt = p.max_retries - 1
    THEN [p EXCEPT !.pc = "returned", !.result = "sentinel",
                   !.service_calls = @ + 1]
    ELSE [p EXCEPT !.pc = "sleep", !.service_calls = @ + 1]

ProcEnter ==
    /\ proc.pc = "called"
    /\ proc' = process_entry(proc)
    /\ UNCHANGED pipelineVars
    /\ UNCHANGED sessionVars

ProcAttempt ==
    /\ proc.pc = "attempt"
    /\ proc' = IF proc.service_calls >= proc.fail_first
               THEN try_success(proc)
               ELSE except_block(proc)
    /\ UNCHANGED pipelineVars
    /\ UNCHANGED sessionVars

\* time.sleep(2) returns and the loop goes to its next iteration
ProcSleep ==
    /\ proc.pc = "sleep"
    /\ proc' = loop_head([proc EXCEPT !.sleeps = @ + 1], proc.attempt + 1)
    /\ UNCHANGED pipelineVars
    /\ UNCHANGED sessionVars

InitProcess ==
    /\ requirements = <<>>
    /\ state = None
    /\ graph = FALSE
    /\ process_started = FALSE
    /\ run = None
    /\ invocations = 0
    /\ failures = 0
    /\ \E key \in BOOLEAN, n \in (0 - NegativeRetries)..MaxRetriesBound,
          k \in 0..AlwaysFails :
         proc = [pc |-> "called", api_key |-> key, max_retries |-> n,
                 fail_first |-> k, attempt |-> 0, service_calls |-> 0,
                 sleeps |-> 0, history |-> 0, result |-> "unset"]
    /\ SessionIdle
    /\ call = NoCall

NextProcess == ProcEnter \/ ProcAttempt \/ ProcSleep

ProcessSpec == InitProcess /\ [][NextProcess]_vars

\* C10: with an api key and max_retries = N >= 1, a call on a service that
\* fails k times first returns the result after exactly k+1 service calls
\* when k < N, and the error sentinel after exactly N service calls when
\* k >= N; it returns in every case (no exception leaves it).
C10_RetryOutcome ==
    (proc.api_key /\ proc.max_retries >= 1) =>
        /\ proc.pc # "raised"
        /\ proc.service_calls <= proc.max_retries
        /\ proc.pc = "returned" =>
              IF proc.fail_first < proc.max_retries
              THEN /\ proc.result = "result"
                   /\ proc.service_calls = proc.fail_first + 1
              ELSE /\ proc.result = "sentinel"
                   /\ proc.service_calls = proc.max_retries

C10_Witness ==
    /\ proc.pc = "returned"
    /\ proc.api_key
    /\ proc.max_retries = DefaultMaxRetries
    /\ proc.fail_first = 2
    /\ proc.result = "result"
    /\ proc.service_calls = 3

(***************************************************************************)
(* Properties of the pipeline: failures, ingestion, the conversation       *)
(***************************************************************************)
\* C11: a step in which a completion call fails for good leaves the run in
\* flight, with the failure recorded as one more conversation entry and the
\* stage advanced by one.
C11_StepSurvivesFailure ==
    (failures' > failures) =>
        /\ run' # None
        /\ Len(run'[1].st.messages) = Len(run[1].st.messages) + 1
        /\ StageRank(run'[1].st.current_stage) =
               StageRank(run[1].st.current_stage) + 1

C11_FailureDoesNotHalt == [][C11_StepSurvivesFailure]_vars

\* C16: a pipeline state exists, or a role agent has been invoked, only if
\* the text extracted from the document is not empty.
C16_NoStartWithoutText ==
    (state # None \/ Running \/ invocations > 0) => requirements # <<>>

\* C18: in a run from the ingested state the conversation has one entry per
\* agent run made, and the i-th entry is attributed to the role that owns
\* the i-th stage and holds that run's completion.
C18_EntriesFollowStages ==
    FromIngest =>
        LET r == run[1]
        IN  /\ Len(r.st.messages) = Len(r.log)
            /\ Len(r.st.messages) <= 5
            /\ \A i \in 1..Len(r.st.messages) :
                  /\ r.st.messages[i].name = StageOwner(StageOrder[i])
                  /\ r.st.messages[i].content = r.log[i].content

C18_Witness ==
    /\ FromIngest
    /\ run[1].st.current_stage = "design"
    /\ Len(run[1].st.messages) = 1
    /\ run[1].st.messages[1].name = "project_manager"

IsPrefix(a, b) == Len(a) <= Len(b) /\ SubSeq(b, 1, Len(a)) = a

\* C19: no step removes, changes or reorders an entry of the conversation:
\* the log of the session state, and the log a run works on, are prefixes of
\* what they are after the step, and a run starts from the session's log.
C19_StepAppendsOnly ==
    /\ (state # None /\ state' # None) =>
           IsPrefix(state[1].messages, state'[1].messages)
    /\ (Running /\ run' # None) =>
           IsPrefix(run[1].st.messages, run'[1].st.messages)
    /\ (~Running /\ run' # None) =>
           run'[1].st.messages = state'[1].messages

C19_ConversationAppendOnly == [][C19_StepAppendsOnly]_vars

C19_Witness ==
    /\ Running
    /\ Len(run[1].st.messages) = 3
    /\ run[1].st.messages[1].content # run[1].st.messages[3].content

\* C20: every state value of the session holds the requirements text that
\* was ingested.
C20_RequirementsFixed ==
    \A s \in StateValues : s.requirements = requirements

C20_Witness ==
    /\ state # None
    /\ state[1].current_stage = "complete"
    /\ state[1].requirements = <<"a">>
    /\ requirements = <<"a">>

(***************************************************************************)
(* ExtractSpec: the developer node on every text of a few tokens           *)
(***************************************************************************)
MaxTokens == 6

Fence == <<Backtick, Backtick, Backtick>>

\* the pieces texts are built from: a fence, a word character, a character
\* that is neither a word character nor white space, a newline, a space
Tokens == {Fence, <<"a">>, <<"+">>, <<"\n">>, <<" ">>}

RECURSIVE TextsOf(_)
TextsOf(n) ==
    IF n = 0 THEN {<<>>}
    ELSE LET shorter == TextsOf(n - 1)
         IN  shorter \cup {t \o k : t \in shorter, k \in Tokens}

\* the state the developer node runs on, two agent runs after ingestion
DevelopmentRun ==
    LET s0 == initial_state(<<"a">>)
        s1 == ApplyUpdate(s0, agent_fn("project_manager", s0, NoFenceText))
        s2 == ApplyUpdate(s1, agent_fn("designer", s1, NoFenceText))
    IN  [st     |-> s2,
         next   |-> router(s2),
         log    |-> <<[role |-> "project_manager", stage |-> "requirements",
                       branch |-> "requirements", content |-> NoFenceText],
                      [role |-> "designer", stage |-> "design",
                       branch |-> "design", content |-> NoFenceText]>>,
         caller |-> "process_requirements"]

InitExtract ==
    /\ requirements = <<"a">>
    /\ state = <<initial_state(<<"a">>)>>
    /\ graph = TRUE
    /\ process_started = FALSE
    /\ run = <<DevelopmentRun>>
    /\ invocations = 2
    /\ failures = 0
    /\ proc = ProcIdle
    /\ SessionIdle
    /\ call = NoCall

DeveloperTick ==
    /\ Running
    /\ run[1].next = "developer"
    /\ \E c \in TextsOf(MaxTokens) : Tick(c)

NextExtract == DeveloperTick

ExtractSpec == InitExtract /\ [][NextExtract]_vars

\* The fenced regions of a text, read as a document: the fences, left to
\* right, pair up as opening and closing fence; the tag is what stands
\* between the opening fence and the end of its line.
RECURSIVE FencePositions(_, _)
FencePositions(t, i) ==
    IF i + 2 > Len(t) THEN <<>>
    ELSE IF FenceAt(t, i) THEN <<i>> \o FencePositions(t, i + 3)
    ELSE FencePositions(t, i + 1)

RECURSIVE TagEnd(_, _)
TagEnd(t, i) ==
    IF i <= Len(t) /\ t[i] \notin (Whitespace \cup {Backtick})
    THEN TagEnd(t, i + 1)
    ELSE i

\* every fence has its partner and every opening fence is followed by a tag
\* without white space (or by nothing) and a newline
WellFormedFences(t) ==
    LET f == FencePositions(t, 1)
    IN  /\ Len(f) % 2 = 0
        /\ \A j \in 1..(Len(f) \div 2) :
              LET e == TagEnd(t, f[2 * j - 1] + 3)
              IN  e < f[2 * j] /\ t[e] = "\n"

ExpectedModules(t) ==
    LET f == FencePositions(t, 1)
        region(j) ==
            LET o == f[2 * j - 1]
                e == TagEnd(t, o + 3)
                tag == SubSeq(t, o + 3, e - 1)
            IN  [language |-> IF tag = <<>> THEN TextLang ELSE tag,
                 code     |-> strip(SubSeq(t, e + 1, f[2 * j] - 1))]
    IN  [k \in {ModuleName(j - 1) : j \in 1..(Len(f) \div 2)} |->
            region(k[2])]

\* C17: for a developer output whose fences are well formed, the code
\* modules are the fenced regions in order of appearance: module_i is the
\* i-th region, with the tag of its opening fence as language (text when
\* there is none) and its body stripped; no region gives no module.
C17_ModulesAreFencedRegions ==
    (Running /\ Len(run[1].log) = 3
       /\ WellFormedFences(run[1].log[3].content)) =>
        run[1].st.code_modules = ExpectedModules(run[1].log[3].content)

(***************************************************************************)
(* The Hackathon page: process_requirements and the feedback handler       *)
(***************************************************************************)
MaxAbnormal == 1

MaxFeedback == 2

\* what the completion service returns to the pipeline's calls, and to the
\* feedback calls (where it may also repeat the text it was given)
PlanTexts == {"t1"}

Completions == {"t1", "t2"}

\* what the service returns to a summary call
Summaries == {"c1"}

\* message.content of a completion that carries no text
NoneValue == "<None>"

\* f"Error: {str(e)}", the text process returns when its retries are used up
ErrorText == "Error: e"

\* f"Error during processing: ..." stored under the key Error
ErrorMsg == "Error during processing"

NoApiKeyMsg == "OpenAI API key is not set"

\* what extract_text_from_pdf of the Hackathon page can return
ExtractedTexts == {<<>>, <<"a">>}

\* the feedback a user can type
FeedbackTexts == {<<>>, <<" ", "\n">>, <<"a">>, <<" ", "a">>}

\* the sections feedback is submitted on
FeedbackSections == {"User Stories", "Test Cases"}

ProgressAfter == <<20, 40, 60, 70, 80, 90, 100>>

StageStatus ==
    <<"Generating User Stories...", "Creating Project Management Plan...",
      "Creating UI/UX Designs...", "Creating Development Plan...",
      "Creating Technology Design...", "Generating Test Scenarios...",
      "Creating Test Cases...">>

\* the earlier sections whose text is concatenated into the content of the
\* call of stage i (the concatenation raises TypeError on None)
Uses(i) ==
    CASE i = 1 -> {}
      [] i = 2 -> {1}
      [] i = 3 -> {1}
      [] i = 4 -> {1, 3}
      [] i = 5 -> {4}
      [] i = 6 -> {1, 4}
      [] i = 7 -> {1, 6}

\* Agent(...).process(prompt, content) is called: max_retries is the default
StartCall(k, hist) ==
    [pc |-> "called", api_key |-> api_key, max_retries |-> DefaultMaxRetries,
     fail_first |-> k, attempt |-> 0, service_calls |-> 0, sleeps |-> 0,
     history |-> hist, result |-> "unset"]

\* how many first calls of the service fail, within the budget
FailChoices(used) ==
    {0} \cup (IF used < MaxAbnormal THEN {1, AlwaysFails} ELSE {})

\* what a returned process call hands back
Returned(texts) ==
    CASE proc.result = "sentinel"   -> {ErrorText}
      [] proc.result = "no_api_key" -> {NoApiKeyMsg}
      [] proc.result = "None"       -> {NoneValue}
      [] OTHER -> texts \cup
                  (IF abnormal < MaxAbnormal THEN {NoneValue} ELSE {})

Abnormal(content, k) ==
    (IF content = NoneValue THEN 1 ELSE 0) + (IF k > 0 THEN 1 ELSE 0)

\* the sections are shown: each one gets its feedback list
render_results(fh, res) ==
    IF res # EmptyDict /\ "Error" \notin DOMAIN res
    THEN [x \in DOMAIN fh \cup (DOMAIN res \cap tab_mapping) |->
             IF x \in DOMAIN fh THEN fh[x] ELSE <<>>]
    ELSE fh

\* a button that needs only the section to be in the results
CanSubmit_any_section(section) ==
    /\ task.pc = "page"
    /\ section \in DOMAIN results
    /\ section \in tab_mapping

\* a page that shows the sections next to the error
CanSubmit_despite_error(section) ==
    /\ task.pc = "page"
    /\ results # EmptyDict
    /\ section \in DOMAIN results
    /\ section \in tab_mapping

\* the button and text area of a section are on the page
CanSubmit(section) ==
    /\ task.pc = "page"
    /\ results # EmptyDict
    /\ "Error" \notin DOMAIN results
    /\ section \in DOMAIN results
    /\ section \in tab_mapping

\* a test of the text as typed, without strip
feedback_accepted_unstripped(feedback) == feedback # <<>>

\* if feedback.strip():
feedback_accepted(feedback) == strip(feedback) # <<>>

\* an insert at the head of the list instead of append
store_feedback_prepends(fh, section, entry) ==
    [fh EXCEPT ![section] = <<entry>> \o @]

\* st.session_state.feedback_history[section].append(...)
store_feedback(fh, section, entry) ==
    [fh EXCEPT ![section] = Append(@, entry)]

\* an assignment that reaches every section
store_result_everywhere(res, section, improved) ==
    [x \in DOMAIN res |-> improved]

\* an assignment that is skipped when the revision call failed
store_result_unless_error(res, section, improved) ==
    IF improved = ErrorText THEN res ELSE [res EXCEPT ![section] = improved]

\* st.session_state.results[section] = improved_content
store_result(res, section, improved) ==
    [res EXCEPT ![section] = improved]

\* the content argument of the revision call: results[section]
revision_input(res, section) == [original |-> res[section], updated |-> ""]

\* a summary call whose original text is read after the overwrite
summary_input_after_overwrite(res, section, improved) ==
    [original |-> improved, updated |-> improved]

\* the content argument of the summary call:
\* "Original content: {results[section]} Updated content: {improved_content}"
summary_input(res, section, improved) ==
    [original |-> res[section], updated |-> improved]

\* building the content of the call of stage i raises TypeError: one of
\* the texts it concatenates is None
concat_raises(loc, i) ==
    \E j \in Uses(i) : loc[SectionOrder[j]] = NoneValue

\* an except block that returns the error alone
except_results_only_error(loc) == DictSet(EmptyDict, "Error", ErrorMsg)

\* except Exception as e: results["Error"] = error_msg
except_results(loc) == DictSet(loc, "Error", ErrorMsg)

\* process_requirements returns `loc`; the script stores it and reruns
Finish(loc) ==
    /\ results' = loc
    /\ processing' = FALSE
    /\ status' = Status("Processing Complete", "")
    /\ feedback_history' = render_results(feedback_history, loc)
    /\ task' = TaskPage
    /\ proc' = ProcIdle

\* the "Process Document" button
ProcessDocument(text) ==
    /\ task.pc = "page"
    /\ IF ~api_key
       THEN /\ event' = [button |-> "Process Document", section |-> "",
                         feedback |-> <<>>, error |-> "no api key"]
            /\ UNCHANGED <<pdf_text, processing, results, chat_history,
                           feedback_history, status, progress_percentage,
                           task>>
       ELSE /\ pdf_text' = <<text>>
            /\ IF text # <<>>
               THEN /\ processing' = TRUE
                    /\ results' = EmptyDict
                    /\ chat_history' = <<>>
                    /\ feedback_history' = EmptyDict
                    /\ status' = Status("Processing started...", "")
                    /\ progress_percentage' = 0
                    /\ task' = [TaskPage EXCEPT !.pc = "process_requirements"]
                    /\ event' = [button |-> "Process Document",
                                 section |-> "", feedback |-> <<>>,
                                 error |-> ""]
               ELSE /\ event' = [button |-> "Process Document",
                                 section |-> "", feedback |-> <<>>,
                                 error |-> "Failed to extract text"]
                    /\ UNCHANGED <<processing, results, chat_history,
                                   feedback_history, status,
                                   progress_percentage, task>>
    /\ UNCHANGED <<api_key, abnormal, accepted, proc, pipelineVars>>

\* process_requirements up to the first process call
StartPipeline(k) ==
    /\ task.pc = "process_requirements"
    /\ k \in FailChoices(abnormal)
    /\ IF ~api_key
       THEN /\ results' = DictSet(EmptyDict, "Error", NoApiKeyMsg)
            /\ processing' = FALSE
            /\ task' = TaskPage
            /\ UNCHANGED <<progress_percentage, abnormal, status,
                           feedback_history, proc>>
       ELSE /\ progress_percentage' = 10
            /\ status' = Status(StageStatus[1], "")
            /\ task' = [TaskPage EXCEPT !.pc = "stage", !.stage = 1]
            /\ proc' = StartCall(k, 0)
            /\ abnormal' = abnormal + Abnormal("", k)
            /\ UNCHANGED <<processing, results, feedback_history>>
    /\ UNCHANGED <<api_key, pdf_text, chat_history, event, accepted,
                   pipelineVars>>

\* the process call of stage i has returned `content`: the section is
\* stored; then the next stage's call is made, or the function returns
\* (after the last stage, or when building the next content raises)
StageReturn(content, k) ==
    /\ task.pc = "stage"
    /\ proc.pc = "returned"
    /\ content \in Returned(PlanTexts)
    /\ k \in FailChoices(abnormal + Abnormal(content, 0))
    /\ LET i   == task.stage
           loc == DictSet(task.local, SectionOrder[i], content)
       IN  /\ progress_percentage' = ProgressAfter[i]
           /\ IF i = Len(SectionOrder)
              THEN /\ Finish(loc)
                   /\ abnormal' = abnormal + Abnormal(content, 0)
              ELSE IF concat_raises(loc, i + 1)
              THEN /\ Finish(except_results(loc))
                   /\ abnormal' = abnormal + Abnormal(content, 0)
              ELSE /\ status' = Status(StageStatus[i + 1], "")
                   /\ task' = [task EXCEPT !.stage = i + 1, !.local = loc]
                   /\ proc' = StartCall(k, 0)
                   /\ abnormal' = abnormal + Abnormal(content, k)
                   /\ UNCHANGED <<processing, results, feedback_history>>
    /\ UNCHANGED <<api_key, pdf_text, chat_history, event, accepted,
                   pipelineVars>>

\* a reset that leaves the feedback lists in the session
EndSession_keeps_feedback ==
    /\ task.pc = "page"
    /\ processing \/ results # EmptyDict
    /\ pdf_text' = <<>>
    /\ processing' = FALSE
    /\ results' = EmptyDict
    /\ chat_history' = <<>>
    /\ status' = Status("Ready", "")
    /\ progress_percentage' = 0
    /\ event' = [button |-> "End Session", section |-> "",
                 feedback |-> <<>>, error |-> ""]
    /\ UNCHANGED <<api_key, task, abnormal, accepted, proc, pipelineVars,
                   feedback_history>>

\* the "End Session" button
EndSession ==
    /\ task.pc = "page"
    /\ processing \/ results # EmptyDict
    /\ pdf_text' = <<>>
    /\ processing' = FALSE
    /\ results' = EmptyDict
    /\ chat_history' = <<>>
    /\ feedback_history' = EmptyDict
    /\ status' = Status("Ready", "")
    /\ progress_percentage' = 0
    /\ event' = [button |-> "End Session", section |-> "",
                 feedback |-> <<>>, error |-> ""]
    /\ UNCHANGED <<api_key, task, abnormal, accepted, proc, pipelineVars>>

\* the "Submit Feedback for <section>" button, up to the revision call
SubmitFeedback(section, feedback, k) ==
    /\ CanSubmit(section)
    /\ section \in FeedbackSections
    /\ k \in FailChoices(abnormal)
    /\ event' = [button |-> "Submit Feedback", section |-> section,
                 feedback |-> feedback, error |-> ""]
    /\ IF feedback_accepted(feedback)
       THEN /\ accepted < MaxFeedback
            /\ chat_history' = Append(chat_history,
                   [role |-> "user", section |-> section,
                    content |-> feedback])
            /\ progress_percentage' = 30
            /\ status' = Status("Processing feedback for", section)
            /\ task' = [TaskPage EXCEPT !.pc = "revise",
                                        !.section = section,
                                        !.feedback = feedback,
                                        !.input = revision_input(results,
                                                                 section)]
            /\ proc' = StartCall(k, 0)
            /\ abnormal' = abnormal + Abnormal("", k)
       ELSE /\ k = 0
            /\ UNCHANGED <<chat_history, progress_percentage, status, task,
                           proc, abnormal>>
    /\ UNCHANGED <<api_key, pdf_text, processing, results, feedback_history,
                   accepted, pipelineVars>>

\* the revision call has returned improved_content; the summary call is made
RevisionReturn(content, k) ==
    /\ task.pc = "revise"
    /\ proc.pc = "returned"
    /\ content \in Returned(Completions)
    /\ k \in FailChoices(abnormal + Abnormal(content, 0))
    /\ progress_percentage' = 70
    /\ task' = [task EXCEPT !.pc = "summarize", !.improved = content,
                            !.input = summary_input(results, task.section,
                                                    content)]
    /\ proc' = StartCall(k, proc.history)
    /\ abnormal' = abnormal + Abnormal(content, k)
    /\ UNCHANGED <<api_key, pdf_text, processing, results, chat_history,
                   feedback_history, status, event, accepted, pipelineVars>>

\* the summary call has returned changes_description; the handler stores
\* the history entry, the chat entry and the improved content, and reruns
SummaryReturn(content) ==
    /\ task.pc = "summarize"
    /\ proc.pc = "returned"
    /\ content \in Returned(Summaries)
    /\ progress_percentage' = 100
    /\ feedback_history' =
           render_results(
               store_feedback(feedback_history, task.section,
                   [feedback |-> task.feedback, response |-> content]),
               store_result(results, task.section, task.improved))
    /\ chat_history' = Append(chat_history,
           [role |-> "ai_support", section |-> task.section,
            content |-> content])
    /\ results' = store_result(results, task.section, task.improved)
    /\ status' = Status("Feedback processed", "")
    /\ task' = TaskPage
    /\ proc' = ProcIdle
    /\ abnormal' = abnormal + Abnormal(content, 0)
    /\ accepted' = accepted + 1
    /\ UNCHANGED <<api_key, pdf_text, processing, event, pipelineVars>>

InitSession ==
    /\ requirements = <<>>
    /\ state = None
    /\ graph = FALSE
    /\ process_started = FALSE
    /\ run = None
    /\ invocations = 0
    /\ failures = 0
    /\ proc = ProcIdle
    /\ api_key \in BOOLEAN
    /\ pdf_text = <<>>
    /\ processing = FALSE
    /\ results = EmptyDict
    /\ chat_history = <<>>
    /\ feedback_history = EmptyDict
    /\ status = Status("Ready", "")
    /\ progress_percentage = 0
    /\ task = TaskPage
    /\ event = NoEvent
    /\ abnormal = 0
    /\ accepted = 0
    /\ call = NoCall

NextSession ==
    \/ \E t \in ExtractedTexts : ProcessDocument(t)
    \/ \E k \in {0, 1, AlwaysFails} : StartPipeline(k)
    \/ \E c \in PlanTexts \cup {ErrorText, NoneValue},
          k \in {0, 1, AlwaysFails} : StageReturn(c, k)
    \/ EndSession
    \/ \E x \in FeedbackSections, f \in FeedbackTexts,
          k \in {0, 1, AlwaysFails} : SubmitFeedback(x, f, k)
    \/ \E c \in Completions \cup {ErrorText, NoneValue},
          k \in {0, 1, AlwaysFails} : RevisionReturn(c, k)
    \/ \E c \in Summaries \cup {ErrorText, NoneValue} : SummaryReturn(c)
    \/ ProcEnter
    \/ ProcAttempt
    \/ ProcSleep

SessionSpec == InitSession /\ [][NextSession]_vars

(***************************************************************************)
(* Claims about the feedback handler                                       *)
(***************************************************************************)
\* a step of the feedback handler, and the section it is about
InFeedbackHandler ==
    \/ task.pc \in {"revise", "summarize"}
    \/ task.pc = "page" /\ task'.pc = "revise"

Target == IF task.pc = "page" THEN task'.section ELSE task.section

\* C12: a click on Submit Feedback whose text is empty or only whitespace
\* starts no process call (so no completion-service call) and leaves the
\* section contents, the feedback history, the chat history, the progress
\* and the status as they were.
C12_StepRejectsEmpty ==
    ( /\ task.pc = "page"
      /\ event'.button = "Submit Feedback"
      /\ strip(event'.feedback) = <<>> )
    => UNCHANGED <<results, feedback_history, chat_history,
                   progress_percentage, status, processing, pdf_text,
                   task, proc>>

C12_EmptyFeedbackRejected == [][C12_StepRejectsEmpty]_vars

C12_Witness ==
    /\ task.pc = "page"
    /\ results # EmptyDict
    /\ event.button = "Submit Feedback"
    /\ event.feedback = <<" ", "\n">>
    /\ proc.pc = "idle"

\* C13: a step of the feedback handler for section S leaves the pipeline
\* where it was (processing, the set of produced sections) and leaves the
\* content and the feedback list of every section other than S unchanged.
C13_StepKeepsOtherSections ==
    InFeedbackHandler =>
        /\ processing' = processing
        /\ DOMAIN results' = DOMAIN results
        /\ DOMAIN feedback_history' = DOMAIN feedback_history
        /\ \A x \in DOMAIN results \ {Target} : results'[x] = results[x]
        /\ \A x \in DOMAIN feedback_history \ {Target} :
               feedback_history'[x] = feedback_history[x]

C13_RevisionTouchesOnlyTarget == [][C13_StepKeepsOtherSections]_vars

C13_Witness ==
    /\ task.pc = "page"
    /\ accepted = 1
    /\ "User Stories" \in DOMAIN results
    /\ results["User Stories"] = "t2"
    /\ results["Test Cases"] = "t1"
    /\ Len(feedback_history["User Stories"]) = 1
    /\ feedback_history["Test Cases"] = <<>>

\* the feedback texts of the submissions on section x that the handler took,
\* in the order of the chat history
Submitted(x) ==
    LET mine == SelectSeq(chat_history,
                    LAMBDA e : e.role = "user" /\ e.section = x)
    IN  [i \in 1..Len(mine) |-> mine[i].content]

HistoryMatchesSubmissions ==
    task.pc = "page" =>
        \A x \in DOMAIN feedback_history :
            [i \in 1..Len(feedback_history[x]) |->
                feedback_history[x][i].feedback] = Submitted(x)

\* C14: the step that ends an accepted submission on S appends one entry
\* (that feedback, the change summary) after the entries S already has and
\* sets the content of S to the text the revision call returned; no other
\* step changes the list of a section that stays on the page; so the list
\* of S holds the accepted submissions on S, one entry each, in order.
C14_StepAppendsOneEntry ==
    /\ \A x \in Sections :
        IF task.pc = "summarize" /\ task'.pc = "page" /\ task.section = x
        THEN /\ x \in DOMAIN feedback_history'
             /\ \E c \in Summaries \cup {ErrorText, NoneValue} :
                    feedback_history'[x] =
                        Append(feedback_history[x],
                               [feedback |-> task.feedback, response |-> c])
             /\ results'[x] = task.improved
        ELSE (x \in DOMAIN feedback_history /\ x \in DOMAIN feedback_history')
                 => feedback_history'[x] = feedback_history[x]
    /\ (task.pc = "revise" /\ task'.pc = "summarize")
           => task'.improved \in Returned(Completions)
    /\ HistoryMatchesSubmissions'

C14_OneEntryPerSubmission == [][C14_StepAppendsOneEntry]_vars

C14_Witness ==
    /\ task.pc = "page"
    /\ "User Stories" \in DOMAIN feedback_history
    /\ Len(feedback_history["User Stories"]) = 2
    /\ feedback_history["User Stories"][1].feedback
           # feedback_history["User Stories"][2].feedback

\* a section the pipeline has produced, in the function's local results or
\* in the session
Produced(x) ==
    \/ x \in DOMAIN results
    \/ task.pc = "stage" /\ x \in DOMAIN task.local

\* C15 as stated: whenever the script is not inside a feedback handler,
\* every section already produced has its feedback button, whether the
\* pipeline is still running or has returned.
C15_EnabledInAnyStage ==
    \A x \in Sections :
        (Produced(x) /\ task.pc \in {"page", "stage"}) => CanSubmit(x)

\* C15 amended: feedback on a section is enabled exactly on the page of a
\* pipeline run that has returned all seven sections and no Error entry;
\* while the pipeline runs, and after a run that ended with an Error entry,
\* no section has its feedback button.
C15_EnabledOnlyAfterPipeline ==
    \A x \in Sections :
        CanSubmit(x) <=>
            /\ task.pc = "page"
            /\ ~processing
            /\ DOMAIN results = Sections

C15_Witness ==
    /\ \A x \in Sections : CanSubmit(x)
    /\ status = Status("Processing Complete", "")
    /\ progress_percentage = 100

(***************************************************************************)
(* NodeSpec: one call of an agent node, create_agent_node(role, llm)(s)    *)
(***************************************************************************)
\* a role name that is not a key of ROLES
OtherRole == "reviewer"

NodeRoles == ROLES \cup {OtherRole}

\* the nodes of the compiled graph: one per key of ROLES
GraphNodes == {role : role \in ROLES}

\* the targets of the conditional edges
EdgeTargets ==
    {"project_manager", "designer", "developer", "tester", "presenter", END}

\* prompt_templates: for each key, the placeholders its template names
\* besides requirements and conversation
prompt_templates ==
    [role \in {"project_manager", "designer", "developer", "tester",
               "presenter"} |->
        CASE role = "project_manager" -> {}
          [] role = "designer"        -> {"project_plan"}
          [] role = "developer"       -> {"design_specs"}
          [] role = "tester"          -> {"implementation"}
          [] role = "presenter"       -> {"design", "implementation",
                                          "test_results"}]

\* a lookup that falls back on the first template
get_template_default(role) ==
    IF role \in DOMAIN prompt_templates THEN <<prompt_templates[role]>>
    ELSE <<prompt_templates["project_manager"]>>

\* prompt_templates[role]: <<placeholders>>, or <<>> for KeyError
get_template(role) ==
    IF role \in DOMAIN prompt_templates THEN <<prompt_templates[role]>>
    ELSE <<>>

\* the values handed to template.format: a string, or json.dumps of a mapping
Str(t) == [kind |-> "str", text |-> t, dict |-> EmptyDict]

Dumps(d) == [kind |-> "json", text |-> <<>>, dict |-> d]

IsEmptyString(v) == v.kind = "str" /\ v.text = <<>>

Placeholders ==
    {"project_plan", "design_specs", "implementation", "design",
     "test_results"}

\* keyword values that read the state whatever the stage
format_kwargs_unguarded(s) ==
    [project_plan   |-> IF Len(s.messages) > 0
                        THEN Str(s.messages[1].content) ELSE Str(<<>>),
     design_specs   |-> Str(IF "specifications" \in DOMAIN s.design_docs
                            THEN s.design_docs["specifications"] ELSE <<>>),
     implementation |-> Dumps(s.code_modules),
     design         |-> Dumps(s.design_docs),
     test_results   |-> Dumps(s.test_results)]

\* the keyword values of template.format
format_kwargs(s) ==
    [project_plan   |->
         IF Len(s.messages) > 0 /\ s.current_stage # "requirements"
         THEN Str(s.messages[1].content) ELSE Str(<<>>),
     design_specs   |->
         IF s.current_stage \notin {"requirements"}
         THEN Str(IF "specifications" \in DOMAIN s.design_docs
                  THEN s.design_docs["specifications"] ELSE <<>>)
         ELSE Str(<<>>),
     implementation |->
         IF s.current_stage \notin {"requirements", "design"}
         THEN Dumps(s.code_modules) ELSE Str(<<>>),
     design         |->
         IF s.current_stage \notin {"requirements"}
         THEN Dumps(s.design_docs) ELSE Str(<<>>),
     test_results   |->
         IF s.current_stage \notin {"requirements", "design", "development"}
         THEN Dumps(s.test_results) ELSE Str(<<>>)]

\* the objects the state's keys refer to, by address
StateKeys ==
    {"messages", "design_docs", "code_modules", "test_results",
     "presentation"}

InputHeap(s) == [a \in {<<"state", k>> : k \in StateKeys} |-> s[a[2]]]

\* the state as agent_fn reads it
StateOf(c) ==
    [requirements  |-> c.given.requirements,
     messages      |-> c.heap[<<"state", "messages">>],
     current_stage |-> c.given.current_stage,
     design_docs   |-> c.heap[<<"state", "design_docs">>],
     code_modules  |-> c.heap[<<"state", "code_modules">>],
     test_results  |-> c.heap[<<"state", "test_results">>],
     presentation  |-> c.heap[<<"state", "presentation">>],
     current_agent |-> c.given.current_agent]

\* a second name for the same mapping instead of a copy
copy_dict_aliased(k) == <<"state", k>>

\* state[k].copy(): a new mapping with the same entries
copy_dict(k) == <<"new", k>>

NewCall(role, s) ==
    [NoCall EXCEPT !.pc = "called", !.role = role, !.given = s,
                   !.heap = InputHeap(s)]

\* conversation_str, prompt_templates[role], template.format(...)
FormatPrompt ==
    /\ call.pc = "called"
    /\ LET t == get_template(call.role)
           v == format_kwargs(StateOf(call))
       IN  IF t = <<>>
           THEN call' = [call EXCEPT !.pc = "raised", !.error = "KeyError"]
           ELSE call' = [call EXCEPT !.pc = "formatted",
                                     !.kwargs = <<v>>,
                                     !.prompt = <<[p \in t[1] |-> v[p]]>>]
    /\ UNCHANGED <<requirements, state, graph, process_started, run,
                   invocations, failures, proc, sessionVars>>

\* llm.invoke(prompt) returns; new_messages and the four copies are made
NodeRespond(content) ==
    /\ call.pc = "formatted"
    /\ LET s   == StateOf(call)
           loc == [k \in StateKeys |->
                      IF k = "messages" THEN <<"new", "messages">>
                      ELSE copy_dict(k)]
       IN  call' = [call EXCEPT
               !.pc = "copied",
               !.response = content,
               !.service_calls = @ + 1,
               !.locals = loc,
               !.heap = [a \in DOMAIN call.heap \cup
                                   {loc[k] : k \in StateKeys} |->
                            IF a = <<"new", "messages">>
                            THEN new_messages(call.role, s, content)
                            ELSE IF a \in DOMAIN call.heap THEN call.heap[a]
                            ELSE call.heap[<<"state", a[2]>>]]]
    /\ UNCHANGED <<requirements, state, graph, process_started, run,
                   invocations, failures, proc, sessionVars>>

\* the if/elif chain writes into the local mappings; the update is returned
NodeReturn ==
    /\ call.pc = "copied"
    /\ LET s   == StateOf(call)
           b   == Branch(call.role, s)
           loc == call.locals
           c   == call.response
           h1  == [call.heap EXCEPT
                     ![loc["design_docs"]] = new_design_docs(b, s, c)]
           h2  == [h1 EXCEPT
                     ![loc["code_modules"]] = new_code_modules(b, s, c)]
           h3  == [h2 EXCEPT
                     ![loc["test_results"]] = new_test_results(b, s, c)]
           h4  == [h3 EXCEPT
                     ![loc["presentation"]] = new_presentation(b, s, c)]
       IN  call' = [call EXCEPT
               !.pc = "returned",
               !.heap = h4,
               !.update = <<[messages      |-> loc["messages"],
                             current_stage |-> new_current_stage(b, s),
                             current_agent |-> new_current_agent(b, s),
                             design_docs   |-> loc["design_docs"],
                             code_modules  |-> loc["code_modules"],
                             test_results  |-> loc["test_results"],
                             presentation  |-> loc["presentation"]]>>]
    /\ UNCHANGED <<requirements, state, graph, process_started, run,
                   invocations, failures, proc, sessionVars>>

InitNode ==
    /\ requirements = <<>>
    /\ state = None
    /\ graph = FALSE
    /\ process_started = FALSE
    /\ run = None
    /\ invocations = 0
    /\ failures = 0
    /\ proc = ProcIdle
    /\ SessionIdle
    /\ \E role \in NodeRoles, s \in PipelineStates : call = NewCall(role, s)

NextNode ==
    \/ FormatPrompt
    \/ \E c \in Responses : NodeRespond(c)
    \/ NodeReturn

NodeSpec == InitNode /\ [][NextNode]_vars

\* the update as values: what the addresses of the returned update hold
UpdateValue(c) ==
    LET u == c.update[1]
    IN  [messages      |-> c.heap[u.messages],
         current_stage |-> u.current_stage,
         current_agent |-> u.current_agent,
         design_docs   |-> c.heap[u.design_docs],
         code_modules  |-> c.heap[u.code_modules],
         test_results  |-> c.heap[u.test_results],
         presentation  |-> c.heap[u.presentation]]

(***************************************************************************)
(* Claims about one agent node call                                        *)
(***************************************************************************)
\* C21: each of the five roles has a prompt template, the nodes and the edge
\* targets of the graph are exactly those five roles (and END), the router
\* names one of them, and a call for any other role raises KeyError at the
\* template lookup: no prompt is built and no completion call is made.
C21_TemplatePerRole ==
    /\ DOMAIN prompt_templates = ROLES
    /\ GraphNodes = ROLES
    /\ EdgeTargets = ROLES \cup {END}
    /\ call.pc # "idle" => router(call.given) \in EdgeTargets
    /\ (call.role \in ROLES /\ call.pc # "idle") => call.pc # "raised"
    /\ (call.role \notin ROLES /\ call.pc \notin {"idle", "called"}) =>
           /\ call.pc = "raised"
           /\ call.error = "KeyError"
           /\ call.prompt = <<>>
           /\ call.service_calls = 0
           /\ call.update = <<>>

C21_Witness ==
    /\ call.role = OtherRole
    /\ call.pc = "raised"
    /\ call.given.current_stage = "design"

(***************************************************************************)
(* LiveSpec: the page when every completion call returns                   *)
(***************************************************************************)
\* graph.invoke is synchronous: a node that can run does run, and the call
\* returns once the router has answered END
NextLive ==
    \/ \E t \in RequirementTexts : ProcessRequirements(t)
    \/ \E c \in Responses : Tick(c)
    \/ InvokeReturn

LiveSpec ==
    /\ Init
    /\ [][NextLive]_vars
    /\ WF_vars(\E c \in Responses : Tick(c))
    /\ WF_vars(InvokeReturn)

RunDone ==
    /\ ~Running
    /\ state # None
    /\ state[1].current_stage = "complete"

\* C22: a run started from the ingested state ends: the loop reaches the
\* stage complete and graph.invoke returns; the run makes at most five agent
\* invocations, and once the stage is complete the router answers END, so
\* no agent runs after it.
C22_RunTerminates ==
    /\ FromIngest ~> RunDone
    /\ [](FromIngest => Len(run[1].log) <= 5)
    /\ [](RunDone => Len(state[1].messages) = 5)
    /\ []((Running /\ run[1].st.current_stage = "complete")
              => run[1].next = END)

C22_Witness ==
    /\ RunDone
    /\ process_started
    /\ invocations = 5
    /\ state[1].presentation # EmptyDict

(***************************************************************************)
(* Claims about the session of the Hackathon page                          *)
(***************************************************************************)
\* C23: the step of End Session leaves every session field at its initial
\* value; the step that starts a new document empties results, chat history
\* and feedback history; they stay empty while the pipeline runs; and the
\* page of the finished run shows only what that run produced, with empty
\* feedback lists.
C23_StepDiscardsEarlierRun ==
    /\ (task.pc = "page" /\ event'.button = "End Session") =>
           /\ pdf_text' = <<>>
           /\ processing' = FALSE
           /\ results' = EmptyDict
           /\ chat_history' = <<>>
           /\ feedback_history' = EmptyDict
           /\ progress_percentage' = 0
           /\ status' = Status("Ready", "")
    /\ (~processing /\ processing') =>
           /\ results' = EmptyDict
           /\ chat_history' = <<>>
           /\ feedback_history' = EmptyDict
           /\ task'.local = EmptyDict
           /\ proc'.pc = "idle"
    /\ processing' =>
           /\ results' = EmptyDict
           /\ chat_history' = <<>>
           /\ feedback_history' = EmptyDict
    /\ (processing /\ ~processing' /\ task.pc = "stage") =>
           /\ chat_history' = <<>>
           /\ \A x \in DOMAIN feedback_history' : feedback_history'[x] = <<>>
           /\ \A x \in DOMAIN task.local : results'[x] = task.local[x]
           /\ \A x \in DOMAIN results' \ DOMAIN task.local :
                  results'[x] \in PlanTexts \cup
                                  {ErrorText, NoneValue, ErrorMsg}

C23_ResetDiscardsState == [][C23_StepDiscardsEarlierRun]_vars

C23_Witness ==
    /\ accepted = 1
    /\ event.button = "Process Document"
    /\ task.pc = "page"
    /\ ~processing
    /\ DOMAIN results = Sections
    /\ chat_history = <<>>

(***************************************************************************)
(* Claims about the prompt and the state of one agent node call            *)
(***************************************************************************)
\* the stage whose agent produces the value of a placeholder
Producer(p) ==
    CASE p = "project_plan"   -> "requirements"
      [] p = "design_specs"   -> "design"
      [] p = "design"         -> "design"
      [] p = "implementation" -> "development"
      [] p = "test_results"   -> "testing"

Formatted == call.pc \in {"formatted", "copied", "returned"}

\* the controller runs the entry node, then the node the router names
Dispatched(role, s) == role = EntryNode \/ role = router(s)

\* C24 as stated: a placeholder value whose producing stage the current
\* stage is not strictly past is the empty string.
C24_EmptyUnlessPast ==
    Formatted =>
        \A p \in Placeholders :
            ~Past(call.given, Producer(p)) =>
                IsEmptyString(call.kwargs[1][p])

\* C24 amended: project_plan is the empty string unless the stage is
\* strictly past requirements; design_specs, design, implementation and
\* test_results are the empty string at every stage before the one that
\* produces them; at the producing stage itself they are read from the
\* state, whose mapping is still empty there (design_specs is the empty
\* string, the other three are the dump of an empty mapping); and in the
\* prompt of a node the controller dispatches, every placeholder of the
\* role's template has a producing stage strictly before the current one.
C24_EmptyBeforeProducer ==
    Formatted =>
        LET s == call.given
            v == call.kwargs[1]
        IN  /\ ~Past(s, "requirements") => IsEmptyString(v["project_plan"])
            /\ \A p \in Placeholders :
                   StageRank(s.current_stage) < StageRank(Producer(p))
                       => IsEmptyString(v[p])
            /\ \A p \in Placeholders \ {"project_plan"} :
                   s.current_stage = Producer(p) =>
                       IF p = "design_specs" THEN IsEmptyString(v[p])
                       ELSE v[p].kind = "json" /\ DOMAIN v[p].dict = {}
            /\ Dispatched(call.role, s) =>
                   \A p \in DOMAIN call.prompt[1] : Past(s, Producer(p))

C24_Witness ==
    /\ call.pc = "formatted"
    /\ call.role = "designer"
    /\ call.given.current_stage = "design"
    /\ call.kwargs[1]["design"].kind = "json"
    /\ ~IsEmptyString(call.kwargs[1]["project_plan"])
    /\ IsEmptyString(call.kwargs[1]["test_results"])

\* C25: the revision call is made first, on the section's content; the
\* summary call is made only once the revision call has returned, on the
\* section's content as it still is and the revised text; the section is
\* overwritten with the revised text only once the summary call has
\* returned.
C25_StepRevisionThenSummary ==
    /\ (task.pc = "page" /\ task'.pc = "revise") =>
           /\ proc'.pc = "called"
           /\ task'.input.original = results[task'.section]
           /\ results' = results
    /\ (task.pc # "summarize" /\ task'.pc = "summarize") =>
           /\ task.pc = "revise"
           /\ proc.pc = "returned"
           /\ proc'.pc = "called"
           /\ task'.improved \in Returned(Completions)
           /\ task'.input = [original |-> results[task.section],
                             updated  |-> task'.improved]
           /\ results' = results
    /\ (task.pc \in {"revise", "summarize"} /\ results' # results) =>
           /\ task.pc = "summarize"
           /\ task'.pc = "page"
           /\ proc.pc = "returned"
           /\ task.input.original = results[task.section]
           /\ results'[task.section] = task.improved
    /\ (task.pc = "revise" /\ task'.pc = "page") => FALSE

C25_RevisionThenSummary == [][C25_StepRevisionThenSummary]_vars

C25_Witness ==
    /\ task.pc = "summarize"
    /\ proc.pc = "returned"
    /\ task.input.original = "t1"
    /\ task.input.updated = "t2"
    /\ results[task.section] = "t1"

\* C26: through the whole call the objects of the state the node was given
\* (the conversation list and the four mappings) hold what they held when
\* the call was made; the returned update names new objects only, and what
\* they hold is the update agent_fn computes from the given state.
C26_InputNotMutated ==
    call.pc # "idle" =>
        /\ \A k \in StateKeys : call.heap[<<"state", k>>] = call.given[k]
        /\ call.pc = "returned" =>
               /\ \A k \in StateKeys : call.update[1][k] = <<"new", k>>
               /\ UpdateValue(call) =
                      agent_fn(call.role, call.given, call.response)

C26_Witness ==
    /\ call.pc = "returned"
    /\ call.role = "designer"
    /\ call.given.current_stage = "design"
    /\ DOMAIN call.given.design_docs = {}
    /\ DOMAIN call.heap[<<"state", "design_docs">>] = {}
    /\ DOMAIN call.heap[call.update[1].design_docs] = {"specifications"}
    /\ Len(call.heap[call.update[1].messages]) = Len(call.given.messages) + 1

(***************************************************************************)
(* Claims about the attempts of one Agent.process call                     *)
(***************************************************************************)
\* C27: within one call (api key set, max_retries >= 1) an attempt starts
\* only when every earlier service call has ended and one delay has been
\* taken after each of them; a delay is taken only after a failed attempt
\* that is not the last one allowed; so a call that returns after a service
\* calls has taken exactly a-1 delays, whether the last attempt succeeded
\* or the sentinel is returned.
C27_OneDelayBetweenAttempts ==
    (proc.api_key /\ proc.max_retries >= 1) =>
        /\ proc.pc \in {"called", "attempt", "sleep", "returned"}
        /\ proc.pc = "attempt" =>
               /\ proc.service_calls = proc.attempt
               /\ proc.sleeps = proc.attempt
        /\ proc.pc = "sleep" =>
               /\ proc.service_calls = proc.attempt + 1
               /\ proc.sleeps = proc.attempt
               /\ proc.attempt < proc.max_retries - 1
               /\ proc.service_calls <= proc.fail_first
        /\ proc.pc = "returned" =>
               /\ proc.service_calls >= 1
               /\ proc.sleeps = proc.service_calls - 1
               /\ proc.result \in {"result", "sentinel"}

C27_Witness ==
    /\ proc.pc = "returned"
    /\ proc.result = "sentinel"
    /\ proc.max_retries = 3
    /\ proc.service_calls = 3
    /\ proc.sleeps = 2

(***************************************************************************)
(* Claims about graph.invoke on any pipeline state                         *)
(***************************************************************************)
\* C28: a graph invocation starts at the project_manager node whatever the
\* stage of the state; and a node run whose role does not own the stage of
\* the state (every run on a complete state included) appends one entry
\* with its output and its role to the conversation and leaves the stage,
\* the active role and the four artifact mappings as they were.
C28_StepEntryAndNonOwner ==
    /\ (~Running /\ run' # None) =>
           /\ run'[1].next = "project_manager"
           /\ run'[1].st = state[1]
    /\ (Running /\ run' # None) =>
           LET r  == run[1]
               r2 == run'[1]
               e  == r2.log[Len(r2.log)]
           IN  /\ Len(r2.log) = Len(r.log) + 1
               /\ e.role = r.next
               /\ (Len(r.log) = 0 => e.role = "project_manager")
               /\ e.role # StageOwner(r.st.current_stage) =>
                      r2.st = [r.st EXCEPT !.messages =
                                  Append(@, AIMessage(e.content, e.role))]

C28_EntryIsProjectManager == [][C28_StepEntryAndNonOwner]_vars

C28_Witness ==
    /\ Running
    /\ Len(run[1].log) = 1
    /\ run[1].log[1].role = "project_manager"
    /\ run[1].log[1].stage = "complete"
    /\ run[1].st.current_stage = "complete"
    /\ Len(run[1].st.messages) = 6

(***************************************************************************)
(* Claims about a failed revision call                                     *)
(***************************************************************************)
\* C29: when the revision call of a feedback submission on S has used up
\* its retries, the text it returns is the error sentinel; the summary call
\* is still made, and the handler's last step stores the sentinel as the
\* content of S, appends the feedback-history entry and the chat entry, and
\* keeps the original content of S in no field of the session state.
C29_StepFailedRevision ==
    /\ (task.pc = "revise" /\ task'.pc = "summarize"
            /\ proc.result = "sentinel") =>
           /\ proc.service_calls = DefaultMaxRetries
           /\ task'.improved = ErrorText
           /\ proc'.pc = "called"
    /\ (task.pc = "summarize" /\ task'.pc = "page"
            /\ task.improved = ErrorText) =>
           \E c \in Summaries \cup {ErrorText, NoneValue} :
               /\ results' = [results EXCEPT ![task.section] = ErrorText]
               /\ feedback_history' =
                      [feedback_history EXCEPT ![task.section] =
                          Append(@, [feedback |-> task.feedback,
                                     response |-> c])]
               /\ chat_history' =
                      Append(chat_history,
                             [role |-> "ai_support",
                              section |-> task.section, content |-> c])
               /\ task' = TaskPage
               /\ task'.input.original = ""
               /\ proc' = ProcIdle

C29_FailedRevisionOverwrites == [][C29_StepFailedRevision]_vars

C29_Witness ==
    /\ task.pc = "page"
    /\ accepted = 1
    /\ "Test Cases" \in DOMAIN results
    /\ results["Test Cases"] = ErrorText
    /\ results["User Stories"] = "t1"
    /\ Len(feedback_history["Test Cases"]) = 1
    /\ feedback_history["Test Cases"][1].response = "c1"
    /\ Len(chat_history) = 2

(***************************************************************************)
(* BatchSpec: one call of process_requirements(pdf_text)                   *)
(***************************************************************************)
InitBatch ==
    /\ requirements = <<>>
    /\ state = None
    /\ graph = FALSE
    /\ process_started = FALSE
    /\ run = None
    /\ invocations = 0
    /\ failures = 0
    /\ proc = ProcIdle
    /\ api_key \in BOOLEAN
    /\ pdf_text \in {<<t>> : t \in ExtractedTexts \ {<<>>}}
    /\ processing = TRUE
    /\ results = EmptyDict
    /\ chat_history = <<>>
    /\ feedback_history = EmptyDict
    /\ status = Status("Processing started...", "")
    /\ progress_percentage = 0
    /\ task = [TaskPage EXCEPT !.pc = "process_requirements"]
    /\ event = [button |-> "Process Document", section |-> "",
                feedback |-> <<>>, error |-> ""]
    /\ abnormal = 0
    /\ accepted = 0
    /\ call = NoCall

NextBatch ==
    \/ \E k \in {0, 1, AlwaysFails} : StartPipeline(k)
    \/ \E c \in PlanTexts \cup {ErrorText, NoneValue},
          k \in {0, 1, AlwaysFails} : StageReturn(c, k)
    \/ ProcEnter
    \/ ProcAttempt
    \/ ProcSleep

BatchSpec == InitBatch /\ [][NextBatch]_vars

\* the step on which process_requirements returns
BatchReturns ==
    /\ task.pc \in {"process_requirements", "stage"}
    /\ task'.pc = "page"

\* the sections of the returned mapping
Returned_sections == DOMAIN results' \ {"Error"}

\* building the content of the next stage's call raised
StageRaised ==
    /\ task.pc = "stage"
    /\ task.stage < Len(SectionOrder)
    /\ \E j \in Uses(task.stage + 1) :
           /\ SectionOrder[j] \in Returned_sections
           /\ results'[SectionOrder[j]] = NoneValue

\* the sections of the stages up to i
UpTo(i) == {SectionOrder[j] : j \in 1..i}

\* C30 as stated: the function returns a mapping; when a stage raised, the
\* sections stored before are kept, an Error entry is added and no further
\* call is made; in every other case the mapping holds exactly the seven
\* sections and no Error entry.
C30_StepErrorIffException ==
    BatchReturns =>
        IF StageRaised
        THEN /\ DOMAIN results' = UpTo(task.stage) \cup {"Error"}
             /\ \A x \in DOMAIN task.local : results'[x] = task.local[x]
             /\ proc'.pc = "idle"
        ELSE DOMAIN results' = Sections

C30_ErrorIffException == [][C30_StepErrorIffException]_vars

\* C30 amended: the function returns a mapping and no exception leaves it.
\* Without an api key it returns the Error entry alone, before any stage and
\* with no completion call. Otherwise the stages run in the fixed order;
\* when building a stage's call raises, the sections stored before are
\* kept, an Error entry is added and no further call is made; when nothing
\* raises, the mapping holds exactly the seven sections and no Error entry.
C30_StepReturnsMapping ==
    /\ task'.pc \in {"page", "process_requirements", "stage"}
    /\ task'.pc = "stage" =>
           /\ DOMAIN task'.local = UpTo(task'.stage - 1)
           /\ ~concat_raises(task'.local, task'.stage)
           /\ api_key
    /\ (task.pc = "stage" /\ task'.pc = "stage" /\ task' # task) =>
           /\ task'.stage = task.stage + 1
           /\ \A x \in DOMAIN task.local : task'.local[x] = task.local[x]
    /\ BatchReturns =>
           IF ~api_key
           THEN /\ task.pc = "process_requirements"
                /\ results' = DictSet(EmptyDict, "Error", NoApiKeyMsg)
                /\ proc' = proc
                /\ proc.pc = "idle"
           ELSE IF StageRaised
           THEN /\ DOMAIN results' = UpTo(task.stage) \cup {"Error"}
                /\ results'["Error"] = ErrorMsg
                /\ \A x \in DOMAIN task.local : results'[x] = task.local[x]
                /\ proc'.pc = "idle"
           ELSE /\ task.pc = "stage"
                /\ task.stage = Len(SectionOrder)
                /\ DOMAIN results' = Sections
                /\ \A x \in DOMAIN task.local : results'[x] = task.local[x]

C30_AlwaysReturnsMapping == [][C30_StepReturnsMapping]_vars

C30_Witness ==
    /\ task.pc = "page"
    /\ ~processing
    /\ DOMAIN results = UpTo(3) \cup {"Error"}
    /\ results["UI/UX Design Specifications"] = NoneValue
    /\ results["User Stories"] = "t1"
    /\ results["Error"] = ErrorMsg

(***************************************************************************)
(* KeySpec: the page, the batch function and a single Agent.process call,  *)
(* each with and without an api key                                        *)
(***************************************************************************)
\* Agent.process called on its own
InitDirect ==
    /\ requirements = <<>>
    /\ state = None
    /\ graph = FALSE
    /\ process_started = FALSE
    /\ run = None
    /\ invocations = 0
    /\ failures = 0
    /\ api_key \in BOOLEAN
    /\ \E k \in {0, 1, AlwaysFails} : proc = StartCall(k, 0)
    /\ pdf_text = <<>>
    /\ processing = FALSE
    /\ results = EmptyDict
    /\ chat_history = <<>>
    /\ feedback_history = EmptyDict
    /\ status = Status("Ready", "")
    /\ progress_percentage = 0
    /\ task = [TaskPage EXCEPT !.pc = "direct"]
    /\ event = NoEvent
    /\ abnormal = 0
    /\ accepted = 0
    /\ call = NoCall

InitKey == InitSession \/ InitBatch \/ InitDirect

KeySpec == InitKey /\ [][NextSession]_vars

\* C31: without an api key no completion-service call is made: a call of
\* Agent.process returns the api-key error text at once, with no service
\* call and no delay; process_requirements runs no stage and returns a
\* mapping whose only entry is Error; and the page starts nothing.
C31_NoKeyNoCall ==
    ~api_key =>
        /\ proc.pc \in {"idle", "called", "returned"}
        /\ proc.service_calls = 0
        /\ proc.sleeps = 0
        /\ proc.history = 0
        /\ proc.pc = "returned" =>
               /\ proc.result = "no_api_key"
               /\ Returned(PlanTexts) = {NoApiKeyMsg}
        /\ task.pc \in {"page", "process_requirements", "direct"}
        /\ task.local = EmptyDict
        /\ results # EmptyDict =>
               results = DictSet(EmptyDict, "Error", NoApiKeyMsg)
        /\ (task.pc = "page" /\ pdf_text = <<>>) => ~processing

C31_Witness ==
    /\ ~api_key
    /\ task.pc = "direct"
    /\ proc.pc = "returned"
    /\ proc.result = "no_api_key"
    /\ proc.fail_first = 0

(***************************************************************************)
(* Claims about a run that ended with an Error entry                       *)
(***************************************************************************)
\* C32: while the results hold an Error entry no section has a feedback
\* button and no feedback handler runs; a feedback handler starts only on
\* results that are present and hold no Error entry; so with an Error entry
\* the results and the feedback history change only by End Session or by
\* Process Document, which empty them.
C32_StepNoFeedbackOnError ==
    /\ "Error" \in DOMAIN results =>
           /\ task.pc = "page"
           /\ task'.pc \in {"page", "process_requirements"}
           /\ proc' = proc
           /\ accepted' = accepted
           /\ (results' # results \/ feedback_history' # feedback_history
                   \/ chat_history' # chat_history) =>
                  /\ event'.button \in {"End Session", "Process Document"}
                  /\ results' = EmptyDict
                  /\ feedback_history' = EmptyDict
                  /\ chat_history' = <<>>
    /\ (task.pc = "page" /\ task'.pc = "revise") =>
           /\ results # EmptyDict
           /\ "Error" \notin DOMAIN results
           /\ task'.section \in DOMAIN results

C32_NoFeedbackOnError == [][C32_StepNoFeedbackOnError]_vars

C32_Witness ==
    /\ task.pc = "page"
    /\ ~processing
    /\ DOMAIN results = UpTo(1) \cup {"Error"}
    /\ results["User Stories"] = NoneValue
    /\ feedback_history = EmptyDict
    /\ status = Status("Processing Complete", "")

(***************************************************************************)
(* Claims about max_retries                                                *)
(***************************************************************************)
\* C33: with an api key, a call with max_retries <= 0 makes no service call
\* and takes no delay, and what it returns is None: neither a generated
\* text nor the error sentinel; a call with max_retries >= 1 that returns,
\* returns a text, the result or the sentinel.
C33_NoRetriesNoValue ==
    proc.api_key =>
        /\ proc.max_retries <= 0 =>
               /\ proc.pc \in {"called", "returned"}
               /\ proc.service_calls = 0
               /\ proc.sleeps = 0
               /\ proc.history = 0
               /\ proc.pc = "returned" => proc.result = "None"
        /\ (proc.max_retries >= 1 /\ proc.pc = "returned") =>
               proc.result \in {"result", "sentinel"}

C33_Witness ==
    /\ proc.api_key
    /\ proc.max_retries = 0
    /\ proc.pc = "returned"
    /\ proc.result = "None"
    /\ proc.fail_first = 0

====
